---- MODULE Spec2Model ----
(***************************************************************************)
(* The node-graph canvas of GameStoryDesigner (FlowCanvas component) and   *)
(* the part of App that feeds it: the node list of the project, the        *)
(* persisted canvasState, and the pointer / wheel event handlers.          *)
(*                                                                         *)
(* Numbers that the code keeps as floating point (positions, pan, scale)   *)
(* are exact rationals <<numerator, denominator>> here.  A node id is a    *)
(* positive integer (0 stands for null/undefined), a connection id is the  *)
(* clock reading it was made from (`conn-${Date.now()}`), -1 is "no id".   *)
(***************************************************************************)
EXTENDS Integers, Sequences, FiniteSets, TLC

\* ---------------------------------------------------------------- bounds
MaxNodes == 3          \* node identifiers 1..MaxNodes
MaxClock == 1          \* Date.now() readings 0..MaxClock
MaxConns == 2          \* connections kept in the list
MaxWheel == 1          \* wheel events in one behaviour
MaxDragMoves == 1      \* position-changing pointer moves in one behaviour
MaxPanMoves == 1       \* pan-changing pointer moves in one behaviour
MaxPlaced == 4         \* nodes of the projects auto-placement is run on
MaxListed == 7         \* nodes of the projects the search box is used on
RectLeft == 40         \* containerRef.getBoundingClientRect().left
RectTop == 20          \* containerRef.getBoundingClientRect().top
RectWidth == 800       \* containerRef.getBoundingClientRect().width
RectHeight == 600      \* containerRef.getBoundingClientRect().height

NodeIds == 1..MaxNodes
Clock == 0..MaxClock
P0 == <<340, 220>>                     \* pointer positions (clientX, clientY)
P1 == <<640, 420>>
V0 == <<120, 100>>                     \* above and left of the first node card
V1 == <<600, 400>>                     \* below the cards, inside the second
V2 == <<300, 300>>                     \* inside the first node card
WheelDeltas == {-5000, 500, 1000}      \* e.deltaY
NewNodeName == <<"n", "e", "w">>       \* the name handleNewPuzzle gives
Labels == {"", "opens"}                \* label texts typed in the modal
Buttons == {0, 1}                      \* e.button: 0 left, 1 middle

\* ------------------------------------------------------ rational numbers
Abs(n) == IF n < 0 THEN -n ELSE n

RECURSIVE GCD(_, _)
GCD(a, b) == IF b = 0 THEN a ELSE GCD(b, a % b)

Norm(n, d) ==
  LET g == GCD(Abs(n), Abs(d))
      s == IF d < 0 THEN -1 ELSE 1
  IN  <<(s * n) \div g, (s * d) \div g>>

R(n) == <<n, 1>>
RAdd(a, b) == Norm(a[1] * b[2] + b[1] * a[2], a[2] * b[2])
RSub(a, b) == Norm(a[1] * b[2] - b[1] * a[2], a[2] * b[2])
RMul(a, b) == Norm(a[1] * b[1], a[2] * b[2])
RDiv(a, b) == Norm(a[1] * b[2], a[2] * b[1])
RLess(a, b) == a[1] * b[2] < b[1] * a[2]
RMin(a, b) == IF RLess(b, a) THEN b ELSE a
RMax(a, b) == IF RLess(a, b) THEN b ELSE a

\* ------------------------------------------------------------- the state
VARIABLES
  activeProjectId,  \* App state: the project whose canvas is shown
  others,           \* the other projects: id -> [chapters, names, canvasState]
  chapters,         \* project.chapters: the node ids of each chapter
  names,            \* the name of each node of the project (a list of characters)
  canvasState,      \* project.canvasState as written by handleUpdateCanvas
  positions,        \* FlowCanvas state: node id -> [x, y]
  connections,      \* FlowCanvas state: list of [id, sourceId, targetId, label]
  transform,        \* [x, y, scale]
  isPanning,
  lastMousePos,     \* <<x, y>>
  selectedNodeIds,  \* list of node ids
  selectionRect,    \* <<>> (null) or <<[startX, startY, currentX, currentY]>>
  draggingNodeId,   \* 0 (null) or a node id
  dragLine,         \* <<>> (null) or <<[sourceId, currentX, currentY, isReconnectingId]>>
  collapsedNodes,   \* the node ids whose collapsed flag is true
  searchQuery,      \* the text of the search box (a list of characters)
  now,              \* the reading Date.now() gives
  effectPending,    \* the [puzzles] effect has to run before the next event
  calls,            \* the onUpdate calls made by the last handler, in order
  emitted,          \* <<>> or <<the pair of the most recent onUpdate call>>
  last,             \* the last handler that ran and what it was given
  budget            \* [wheel, drag, pan]: events counted against the bounds

vars == <<activeProjectId, others, chapters, names, canvasState, positions, connections, transform,
          isPanning, lastMousePos, selectedNodeIds, selectionRect,
          draggingNodeId, dragLine, collapsedNodes, searchQuery, now,
          effectPending, calls, emitted, last, budget>>

\* ---------------------------------------------------------------- helpers
RECURSIVE flatMap(_)
flatMap(chs) == IF chs = <<>> THEN <<>> ELSE Head(chs) \o flatMap(Tail(chs))

puzzles == flatMap(chapters)

Range(s) == {s[i] : i \in 1..Len(s)}

includes(list, id) == \E i \in 1..Len(list) : list[i] = id

Pair(pos, conns) == [positions |-> pos, connections |-> conns]

\* What `last` records: the handler, the node and connection it was called
\* for, the part of the card and the button, and the dragLine it found;
\* idx is the place in the list of the connection the event was on, at is
\* where the pointer of a wheel event was.
Event(op, id, conn, part, btn) ==
  [op |-> op, id |-> id, conn |-> conn, part |-> part, btn |-> btn,
   idx |-> 0, at |-> <<0, 0>>,
   drag |-> IF op \in {"mouseUp", "mouseLeave", "socketMouseUp"}
            THEN dragLine ELSE <<>>]

ConnEvent(op, i, part) ==
  [Event(op, 0, connections[i].id, part, 0) EXCEPT !.idx = i]

\* ---------------------------------------------------------------- onUpdate
\* onUpdate(positions, connections) -> handleUpdateCanvas: pairs are the
\* arguments of the onUpdate calls of one handler, in order.  The last one
\* stays in project.canvasState; the project object changes, so the
\* [puzzles] effect of the canvas runs again.
Emit(pairs) ==
  /\ calls' = pairs
  /\ emitted' = IF pairs = <<>> THEN emitted ELSE <<pairs[Len(pairs)]>>
  /\ canvasState' = IF pairs = <<>> THEN canvasState ELSE pairs[Len(pairs)]
  /\ effectPending' = (pairs # <<>>)

\* ----------------------------------------------------- auto-placement
GridPosition_fourColumns(idx) ==
  [x |-> R(100 + (idx % 4) * 350), y |-> R(100 + (idx \div 4) * 250)]

GridPosition(idx) ==
  [x |-> R(100 + (idx % 3) * 350), y |-> R(100 + (idx \div 3) * 250)]

RECURSIVE placeFrom(_, _, _)
placeFrom(pos, list, i) ==
  IF i > Len(list) THEN pos
  ELSE IF list[i] \in DOMAIN pos THEN placeFrom(pos, list, i + 1)
       ELSE placeFrom([n \in DOMAIN pos \cup {list[i]} |->
                         IF n = list[i] THEN GridPosition(i - 1) ELSE pos[n]],
                      list, i + 1)

RECURSIVE placeAll(_, _, _)
placeAll(pos, list, i) ==
  IF i > Len(list) THEN pos
  ELSE placeAll([n \in DOMAIN pos \cup {list[i]} |->
                   IF n = list[i] THEN GridPosition(i - 1) ELSE pos[n]],
                list, i + 1)

ensurePositions_overwrite(pos, list) == placeAll(pos, list, 1)

ensurePositions(pos, list) == placeFrom(pos, list, 1)

EnsurePositions_alwaysEmits ==
  /\ effectPending
  /\ LET newPositions == ensurePositions(positions, puzzles)
     IN  /\ positions' = newPositions
         /\ Emit(<<Pair(newPositions, connections)>>)
  /\ last' = Event("ensurePositions", 0, -1, "", 0)
  /\ UNCHANGED <<activeProjectId, others, chapters, names, searchQuery, connections, transform, isPanning, lastMousePos,
                 selectedNodeIds, selectionRect, draggingNodeId, dragLine,
                 collapsedNodes, now, budget>>

EnsurePositions ==
  /\ effectPending
  /\ LET newPositions == ensurePositions(positions, puzzles)
         changed == newPositions # positions
     IN  /\ positions' = newPositions
         /\ Emit(IF changed THEN <<Pair(newPositions, connections)>> ELSE <<>>)
  /\ last' = Event("ensurePositions", 0, -1, "", 0)
  /\ UNCHANGED <<activeProjectId, others, chapters, names, searchQuery, connections, transform, isPanning, lastMousePos,
                 selectedNodeIds, selectionRect, draggingNodeId, dragLine,
                 collapsedNodes, now, budget>>

\* The state after FlowCanvas is constructed for project 1 with chapters chs,
\* node names nm and canvasState cs, the other projects being oth; the
\* [puzzles] effect has not run yet.
InitProjects(chs, nm, cs, oth) ==
  /\ activeProjectId = 1
  /\ others = oth
  /\ chapters = chs
  /\ names = nm
  /\ searchQuery = <<>>
  /\ canvasState = cs
  /\ positions = cs.positions
  /\ connections = cs.connections
  /\ transform = [x |-> R(0), y |-> R(0), scale |-> R(1)]
  /\ isPanning = FALSE
  /\ lastMousePos = <<0, 0>>
  /\ selectedNodeIds = <<>>
  /\ selectionRect = <<>>
  /\ draggingNodeId = 0
  /\ dragLine = <<>>
  /\ collapsedNodes = {}
  /\ now = 0
  /\ effectPending = TRUE
  /\ calls = <<>>
  /\ emitted = <<>>
  /\ last = Event("mount", 0, -1, "", 0)
  /\ budget = [wheel |-> 0, drag |-> 0, pan |-> 0]

InitNamed(chs, nm, cs) == InitProjects(chs, nm, cs, <<>>)

InitFrom(chs, cs) ==
  InitNamed(chs, [n \in Range(flatMap(chs)) |-> NewNodeName], cs)

\* ------------------------------------------------------------ the clock
Tick ==
  /\ ~effectPending
  /\ now < MaxClock
  /\ now' = now + 1
  /\ UNCHANGED <<activeProjectId, others, chapters, names, searchQuery, canvasState, positions, connections, transform,
                 isPanning, lastMousePos, selectedNodeIds, selectionRect,
                 draggingNodeId, dragLine, collapsedNodes, effectPending,
                 calls, emitted, last, budget>>

\* ------------------------------------------------------------ pointer down
\* The part of the state handleMouseDown writes.
Pointer ==
  [isPanning |-> isPanning, lastMousePos |-> lastMousePos,
   draggingNodeId |-> draggingNodeId, selectedNodeIds |-> selectedNodeIds,
   selectionRect |-> selectionRect, stopped |-> FALSE]

\* handleMouseDown(e, id): id = 0 is the container's own call.  part is
\* where in the node card the event target lies.
handleMouseDown_selectsOne(s, p, button, id, part) ==
  IF button = 1
  THEN [s EXCEPT !.isPanning = TRUE, !.lastMousePos = p]
  ELSE IF id # 0
       THEN IF part = "socket" \/ part = "controls"
            THEN s
            ELSE [s EXCEPT !.stopped = TRUE,
                           !.draggingNodeId = id,
                           !.selectedNodeIds = <<id>>,
                           !.lastMousePos = p]
       ELSE [s EXCEPT !.selectionRect =
                         <<[startX |-> p[1], startY |-> p[2],
                            currentX |-> p[1], currentY |-> p[2]]>>,
                      !.selectedNodeIds = <<>>]

handleMouseDown(s, p, button, id, part) ==
  IF button = 1
  THEN [s EXCEPT !.isPanning = TRUE, !.lastMousePos = p]
  ELSE IF id # 0
       THEN IF part = "socket" \/ part = "controls"
            THEN s
            ELSE [s EXCEPT !.stopped = TRUE,
                           !.draggingNodeId = id,
                           !.selectedNodeIds =
                              IF ~includes(s.selectedNodeIds, id)
                              THEN <<id>> ELSE s.selectedNodeIds,
                           !.lastMousePos = p]
       ELSE [s EXCEPT !.selectionRect =
                         <<[startX |-> p[1], startY |-> p[2],
                            currentX |-> p[1], currentY |-> p[2]]>>,
                      !.selectedNodeIds = <<>>]

SetPointer(s) ==
  /\ isPanning' = s.isPanning
  /\ lastMousePos' = s.lastMousePos
  /\ draggingNodeId' = s.draggingNodeId
  /\ selectedNodeIds' = s.selectedNodeIds
  /\ selectionRect' = s.selectionRect

\* mousedown on the canvas background: the container's handler only.
MouseDownBackground(p, button) ==
  /\ ~effectPending
  /\ SetPointer(handleMouseDown(Pointer, p, button, 0, "background"))
  /\ last' = Event("mouseDown", 0, -1, "background", button)
  /\ Emit(<<>>)
  /\ UNCHANGED <<activeProjectId, others, chapters, names, searchQuery, positions, connections, transform, dragLine,
                 collapsedNodes, now, budget>>

\* mousedown inside a node card (body, input socket, control buttons): the
\* node's handler runs, and unless it stopped propagation the container's.
MouseDownNode(id, part, p, button) ==
  /\ ~effectPending
  /\ includes(puzzles, id)
  /\ LET s1 == handleMouseDown(Pointer, p, button, id, part)
         s2 == IF s1.stopped THEN s1
               ELSE handleMouseDown(s1, p, button, 0, part)
     IN  SetPointer(s2)
  /\ last' = Event("mouseDown", id, -1, part, button)
  /\ Emit(<<>>)
  /\ UNCHANGED <<activeProjectId, others, chapters, names, searchQuery, positions, connections, transform, dragLine,
                 collapsedNodes, now, budget>>

\* handleSocketMouseDown(e, id, true) on the output socket.
handleSocketMouseDown(id, p, isOutput) ==
  IF isOutput
  THEN <<[sourceId |-> id, currentX |-> p[1], currentY |-> p[2],
          isReconnectingId |-> -1]>>
  ELSE dragLine

SocketMouseDown(id, p, button) ==
  /\ ~effectPending
  /\ includes(puzzles, id)
  /\ dragLine' = handleSocketMouseDown(id, p, TRUE)
  /\ last' = Event("socketMouseDown", id, -1, "output", button)
  /\ Emit(<<>>)
  /\ UNCHANGED <<activeProjectId, others, chapters, names, searchQuery, positions, connections, transform, isPanning,
                 lastMousePos, selectedNodeIds, selectionRect, draggingNodeId,
                 collapsedNodes, now, budget>>

\* renderConnection draws a connection only when both ends have a position.
Rendered(c) == c.sourceId \in DOMAIN positions /\ c.targetId \in DOMAIN positions

handleUnplugMouseDown(conn, p) ==
  <<[sourceId |-> conn.sourceId, currentX |-> p[1], currentY |-> p[2],
     isReconnectingId |-> conn.id]>>

UnplugMouseDown(i, p, button) ==
  /\ ~effectPending
  /\ i \in 1..Len(connections)
  /\ Rendered(connections[i])
  /\ dragLine' = handleUnplugMouseDown(connections[i], p)
  /\ last' = [ConnEvent("unplugMouseDown", i, "unplug") EXCEPT !.btn = button]
  /\ Emit(<<>>)
  /\ UNCHANGED <<activeProjectId, others, chapters, names, searchQuery, positions, connections, transform, isPanning,
                 lastMousePos, selectedNodeIds, selectionRect, draggingNodeId,
                 collapsedNodes, now, budget>>

\* ------------------------------------------------------------ pointer move
\* The batch move of handleMouseMove: every selected node that has a
\* position is translated by (dx, dy) / scale, read from the old map.
movePositions(pos, ids, dx, dy, scale) ==
  [n \in DOMAIN pos |->
     IF includes(ids, n)
     THEN [x |-> RAdd(pos[n].x, RDiv(R(dx), scale)),
           y |-> RAdd(pos[n].y, RDiv(R(dy), scale))]
     ELSE pos[n]]

\* "Convert node pos to screen space": the client coordinates of a world
\* point under the transform tr.
worldToScreen_noPan(pos, tr) ==
  [x |-> RAdd(RMul(pos.x, tr.scale), R(RectLeft)),
   y |-> RAdd(RMul(pos.y, tr.scale), R(RectTop))]

worldToScreen(pos, tr) ==
  [x |-> RAdd(RAdd(RMul(pos.x, tr.scale), tr.x), R(RectLeft)),
   y |-> RAdd(RAdd(RMul(pos.y, tr.scale), tr.y), R(RectTop))]

\* The end point of the drag preview: the world point under the client
\* coordinates q.
screenToWorld(q, tr) ==
  [x |-> RDiv(RSub(RSub(q.x, R(RectLeft)), tr.x), tr.scale),
   y |-> RDiv(RSub(RSub(q.y, R(RectTop)), tr.y), tr.scale)]

\* The marquee test of handleMouseMove for one node.
Overlaps(id, rect, p) ==
  LET newX1 == IF rect.startX < p[1] THEN rect.startX ELSE p[1]
      newY1 == IF rect.startY < p[2] THEN rect.startY ELSE p[2]
      newX2 == IF rect.startX > p[1] THEN rect.startX ELSE p[1]
      newY2 == IF rect.startY > p[2] THEN rect.startY ELSE p[2]
      pos == positions[id]
      screenX == worldToScreen(pos, transform).x
      screenY == worldToScreen(pos, transform).y
      screenW == RMul(R(280), transform.scale)
      screenH == RMul(R(IF id \in collapsedNodes THEN 100 ELSE 250), transform.scale)
  IN  /\ RLess(screenX, R(newX2))
      /\ RLess(R(newX1), RAdd(screenX, screenW))
      /\ RLess(screenY, R(newY2))
      /\ RLess(R(newY1), RAdd(screenY, screenH))

marqueeSelection(rect, p) ==
  SelectSeq(puzzles, LAMBDA id : id \in DOMAIN positions /\ Overlaps(id, rect, p))

handleMouseMove_scaledPan(p) ==
  LET dx == p[1] - lastMousePos[1]
      dy == p[2] - lastMousePos[2]
  IN
  /\ IF isPanning
     THEN /\ transform' = [transform EXCEPT !.x = RAdd(@, RDiv(R(dx), transform.scale)),
                                          !.y = RAdd(@, RDiv(R(dy), transform.scale))]
          /\ UNCHANGED <<positions, selectionRect, selectedNodeIds>>
     ELSE IF draggingNodeId # 0
     THEN /\ positions' = movePositions(positions, selectedNodeIds, dx, dy, transform.scale)
          /\ UNCHANGED <<transform, selectionRect, selectedNodeIds>>
     ELSE IF selectionRect # <<>>
     THEN /\ selectionRect' = <<[selectionRect[1] EXCEPT !.currentX = p[1], !.currentY = p[2]]>>
          /\ selectedNodeIds' = marqueeSelection(selectionRect[1], p)
          /\ UNCHANGED <<transform, positions>>
     ELSE UNCHANGED <<transform, positions, selectionRect, selectedNodeIds>>
  /\ dragLine' = IF dragLine # <<>>
                 THEN <<[dragLine[1] EXCEPT !.currentX = p[1], !.currentY = p[2]]>>
                 ELSE dragLine
  /\ lastMousePos' = p

handleMouseMove(p) ==
  LET dx == p[1] - lastMousePos[1]
      dy == p[2] - lastMousePos[2]
  IN
  /\ IF isPanning
     THEN /\ transform' = [transform EXCEPT !.x = RAdd(@, R(dx)), !.y = RAdd(@, R(dy))]
          /\ UNCHANGED <<positions, selectionRect, selectedNodeIds>>
     ELSE IF draggingNodeId # 0
     THEN /\ positions' = movePositions(positions, selectedNodeIds, dx, dy, transform.scale)
          /\ UNCHANGED <<transform, selectionRect, selectedNodeIds>>
     ELSE IF selectionRect # <<>>
     THEN /\ selectionRect' = <<[selectionRect[1] EXCEPT !.currentX = p[1], !.currentY = p[2]]>>
          /\ selectedNodeIds' = marqueeSelection(selectionRect[1], p)
          /\ UNCHANGED <<transform, positions>>
     ELSE UNCHANGED <<transform, positions, selectionRect, selectedNodeIds>>
  /\ dragLine' = IF dragLine # <<>>
                 THEN <<[dragLine[1] EXCEPT !.currentX = p[1], !.currentY = p[2]]>>
                 ELSE dragLine
  /\ lastMousePos' = p

MouseMove_panDragsNodes(p) ==
  LET dx == p[1] - lastMousePos[1]
      dy == p[2] - lastMousePos[2]
      marquee == ~isPanning /\ draggingNodeId = 0 /\ selectionRect # <<>>
  IN
  /\ ~effectPending
  /\ transform' = IF isPanning
                  THEN [transform EXCEPT !.x = RAdd(@, R(dx)), !.y = RAdd(@, R(dy))]
                  ELSE transform
  /\ positions' = IF draggingNodeId # 0
                  THEN movePositions(positions, selectedNodeIds, dx, dy, transform.scale)
                  ELSE positions
  /\ selectionRect' = IF marquee
                      THEN <<[selectionRect[1] EXCEPT !.currentX = p[1], !.currentY = p[2]]>>
                      ELSE selectionRect
  /\ selectedNodeIds' = IF marquee THEN marqueeSelection(selectionRect[1], p)
                        ELSE selectedNodeIds
  /\ dragLine' = IF dragLine # <<>>
                 THEN <<[dragLine[1] EXCEPT !.currentX = p[1], !.currentY = p[2]]>>
                 ELSE dragLine
  /\ lastMousePos' = p
  /\ budget' = [budget EXCEPT
                  !.drag = IF positions' # positions THEN @ + 1 ELSE @,
                  !.pan = IF transform' # transform THEN @ + 1 ELSE @]
  /\ budget'.drag <= MaxDragMoves
  /\ budget'.pan <= MaxPanMoves
  /\ last' = Event("mouseMove", 0, -1, "", 0)
  /\ Emit(<<>>)
  /\ UNCHANGED <<activeProjectId, others, chapters, names, searchQuery, connections, isPanning, draggingNodeId,
                 collapsedNodes, now>>

MouseMove(p) ==
  /\ ~effectPending
  /\ handleMouseMove(p)
  /\ budget' = [budget EXCEPT
                  !.drag = IF positions' # positions THEN @ + 1 ELSE @,
                  !.pan = IF transform' # transform THEN @ + 1 ELSE @]
  /\ budget'.drag <= MaxDragMoves
  /\ budget'.pan <= MaxPanMoves
  /\ last' = Event("mouseMove", 0, -1, "", 0)
  /\ Emit(<<>>)
  /\ UNCHANGED <<activeProjectId, others, chapters, names, searchQuery, connections, isPanning, draggingNodeId,
                 collapsedNodes, now>>

\* -------------------------------------------------------------- connections
removeConnection_first(conns, id) ==
  LET hits == {i \in 1..Len(conns) : conns[i].id = id}
      first == CHOOSE i \in hits : \A j \in hits : i <= j
  IN  IF hits = {} THEN conns
      ELSE SubSeq(conns, 1, first - 1) \o SubSeq(conns, first + 1, Len(conns))

removeConnection(conns, id) == SelectSeq(conns, LAMBDA c : c.id # id)

updateConnectionLabel_all(conns, id, label) ==
  [i \in 1..Len(conns) |-> [conns[i] EXCEPT !.label = label]]

updateConnectionLabel(conns, id, label) ==
  [i \in 1..Len(conns) |->
     IF conns[i].id = id THEN [conns[i] EXCEPT !.label = label] ELSE conns[i]]

exists_typo(conns, sourceId, targetId) ==
  \E i \in 1..Len(conns) :
     conns[i].sourceId = sourceId /\ conns[i].targetId = sourceId

exists(conns, sourceId, targetId) ==
  \E i \in 1..Len(conns) :
     conns[i].sourceId = sourceId /\ conns[i].targetId = targetId

newConn_swapped(sourceId, targetId) ==
  [id |-> now, sourceId |-> targetId, targetId |-> sourceId, label |-> ""]

newConn(sourceId, targetId) ==
  [id |-> now, sourceId |-> sourceId, targetId |-> targetId, label |-> ""]

\* The connection list handleSocketMouseUp leaves for a drag line dl
\* released on the socket of node id.
accepts_anyTarget(dl, id, isInput) == dl # <<>> /\ isInput

accepts(dl, id, isInput) == dl # <<>> /\ isInput /\ dl[1].sourceId # id

socketMouseUpConns_replace(conns, dl, id, isInput) ==
  IF accepts(dl, id, isInput)
  THEN Append(SelectSeq(conns, LAMBDA c : ~(c.sourceId = dl[1].sourceId
                                            /\ c.targetId = id)),
              newConn(dl[1].sourceId, id))
  ELSE conns

socketMouseUpConns(conns, dl, id, isInput) ==
  IF accepts(dl, id, isInput) /\ ~exists(conns, dl[1].sourceId, id)
  THEN Append(conns, newConn(dl[1].sourceId, id))
  ELSE conns

\* ------------------------------------------------------------- pointer up
\* The onUpdate call handleMouseUp makes when a node drag ends.
dragEndUpdate_missing(dragging, pos, conns) == <<>>

dragEndUpdate(dragging, pos, conns) ==
  IF dragging # 0 THEN <<Pair(pos, conns)>> ELSE <<>>

\* handleMouseUp, run by mouseup bubbling to the container and by mouseleave.
handleMouseUp_keepsReconnected ==
  /\ isPanning' = FALSE
  /\ draggingNodeId' = 0
  /\ selectionRect' = <<>>
  /\ dragLine' = <<>>
  /\ connections' = connections
  /\ Emit(dragEndUpdate(draggingNodeId, positions, connections))

handleMouseUp ==
  LET first == dragEndUpdate(draggingNodeId, positions, connections)
      reconnect == dragLine # <<>> /\ dragLine[1].isReconnectingId # -1
      newConns == IF reconnect
                  THEN removeConnection(connections, dragLine[1].isReconnectingId)
                  ELSE connections
  IN  /\ isPanning' = FALSE
      /\ draggingNodeId' = 0
      /\ selectionRect' = <<>>
      /\ dragLine' = <<>>
      /\ connections' = newConns
      /\ Emit(first \o (IF reconnect THEN <<Pair(positions, newConns)>> ELSE <<>>))

\* mouseup anywhere but on an input socket (part: where it landed).
MouseUp(id, part) ==
  /\ ~effectPending
  /\ id = 0 \/ includes(puzzles, id)
  /\ handleMouseUp
  /\ last' = Event("mouseUp", id, -1, part, 0)
  /\ UNCHANGED <<activeProjectId, others, chapters, names, searchQuery, positions, transform, lastMousePos, selectedNodeIds,
                 collapsedNodes, now, budget>>

MouseLeave ==
  /\ ~effectPending
  /\ handleMouseUp
  /\ last' = Event("mouseLeave", 0, -1, "", 0)
  /\ UNCHANGED <<activeProjectId, others, chapters, names, searchQuery, positions, transform, lastMousePos, selectedNodeIds,
                 collapsedNodes, now, budget>>

\* handleSocketMouseUp(e, id, true) on an input socket; it stops the
\* propagation, so handleMouseUp does not run.
handleSocketMouseUp(id, isInput) ==
  LET newConns == socketMouseUpConns(connections, dragLine, id, isInput)
  IN  /\ connections' = newConns
      /\ Emit(IF newConns # connections THEN <<Pair(positions, newConns)>> ELSE <<>>)
      /\ dragLine' = IF accepts(dragLine, id, isInput) THEN <<>> ELSE dragLine

SocketMouseUp(id) ==
  /\ ~effectPending
  /\ includes(puzzles, id)
  /\ handleSocketMouseUp(id, TRUE)
  /\ Len(connections') <= MaxConns
  /\ last' = Event("socketMouseUp", id, -1, "input", 0)
  /\ UNCHANGED <<activeProjectId, others, chapters, names, searchQuery, positions, transform, isPanning, lastMousePos,
                 selectedNodeIds, selectionRect, draggingNodeId,
                 collapsedNodes, now, budget>>

\* onContextMenu of a drawn connection.
ContextMenuConnection(i) ==
  /\ ~effectPending
  /\ i \in 1..Len(connections)
  /\ Rendered(connections[i])
  /\ LET newConns == removeConnection(connections, connections[i].id)
     IN  /\ connections' = newConns
         /\ Emit(<<Pair(positions, newConns)>>)
  /\ last' = ConnEvent("removeConnection", i, "")
  /\ UNCHANGED <<activeProjectId, others, chapters, names, searchQuery, positions, transform, isPanning, lastMousePos,
                 selectedNodeIds, selectionRect, draggingNodeId, dragLine,
                 collapsedNodes, now, budget>>

\* onChange of the label input of the connection modal.
EditConnectionLabel(i, label) ==
  /\ ~effectPending
  /\ i \in 1..Len(connections)
  /\ Rendered(connections[i])
  /\ LET newConns == updateConnectionLabel(connections, connections[i].id, label)
     IN  /\ connections' = newConns
         /\ Emit(<<Pair(positions, newConns)>>)
  /\ last' = ConnEvent("updateConnectionLabel", i, label)
  /\ UNCHANGED <<activeProjectId, others, chapters, names, searchQuery, positions, transform, isPanning, lastMousePos,
                 selectedNodeIds, selectionRect, draggingNodeId, dragLine,
                 collapsedNodes, now, budget>>

\* ------------------------------------------------------------ view changes
clampScale_noUpper(s) == RMax(s, <<1, 10>>)

clampScale(s) == RMin(RMax(s, <<1, 10>>), R(5))

handleWheel_rawScale(deltaY, p) ==
  LET zoomSpeed == <<1, 1000>>
      delta == RMul(R(-deltaY), zoomSpeed)
      rawScale == RAdd(transform.scale, delta)
      mouseX == R(p[1] - RectLeft)
      mouseY == R(p[2] - RectTop)
      canvasX == RDiv(RSub(mouseX, transform.x), transform.scale)
      canvasY == RDiv(RSub(mouseY, transform.y), transform.scale)
      nextX == RSub(mouseX, RMul(canvasX, rawScale))
      nextY == RSub(mouseY, RMul(canvasY, rawScale))
  IN  [x |-> nextX, y |-> nextY, scale |-> clampScale(rawScale)]

handleWheel(deltaY, p) ==
  LET zoomSpeed == <<1, 1000>>
      delta == RMul(R(-deltaY), zoomSpeed)
      newScale == clampScale(RAdd(transform.scale, delta))
      mouseX == R(p[1] - RectLeft)
      mouseY == R(p[2] - RectTop)
      canvasX == RDiv(RSub(mouseX, transform.x), transform.scale)
      canvasY == RDiv(RSub(mouseY, transform.y), transform.scale)
      nextX == RSub(mouseX, RMul(canvasX, newScale))
      nextY == RSub(mouseY, RMul(canvasY, newScale))
  IN  [x |-> nextX, y |-> nextY, scale |-> newScale]

Wheel(deltaY, p) ==
  /\ ~effectPending
  /\ budget.wheel < MaxWheel
  /\ budget' = [budget EXCEPT !.wheel = @ + 1]
  /\ transform' = handleWheel(deltaY, p)
  /\ last' = [Event("wheel", 0, -1, "", 0) EXCEPT !.at = p]
  /\ Emit(<<>>)
  /\ UNCHANGED <<activeProjectId, others, chapters, names, searchQuery, positions, connections, isPanning, lastMousePos,
                 selectedNodeIds, selectionRect, draggingNodeId, dragLine,
                 collapsedNodes, now>>

\* The transform and selection locateNode(id) leaves.
locateNode_topLeft(id) ==
  IF id \notin DOMAIN positions
  THEN [transform |-> transform, selectedNodeIds |-> selectedNodeIds]
  ELSE LET pos == positions[id]
           centerX == RDiv(R(RectWidth), R(2))
           centerY == RDiv(R(RectHeight), R(2))
       IN  [transform |->
              [x |-> RSub(centerX, RMul(pos.x, transform.scale)),
               y |-> RSub(centerY, RMul(pos.y, transform.scale)),
               scale |-> transform.scale],
            selectedNodeIds |-> <<id>>]

locateNode(id) ==
  IF id \notin DOMAIN positions
  THEN [transform |-> transform, selectedNodeIds |-> selectedNodeIds]
  ELSE LET pos == positions[id]
           centerX == RDiv(R(RectWidth), R(2))
           centerY == RDiv(R(RectHeight), R(2))
       IN  [transform |->
              [x |-> RSub(centerX, RMul(RAdd(pos.x, R(140)), transform.scale)),
               y |-> RSub(centerY, RMul(RAdd(pos.y, R(100)), transform.scale)),
               scale |-> transform.scale],
            selectedNodeIds |-> <<id>>]

\* ------------------------------------------------------------------ search
LowerCase == ("A" :> "a") @@ ("B" :> "b")

toLowerCase(str) ==
  [i \in 1..Len(str) |->
     IF str[i] \in DOMAIN LowerCase THEN LowerCase[str[i]] ELSE str[i]]

\* String.prototype.includes
includesText(str, q) ==
  \E k \in 0..(Len(str) - Len(q)) : SubSeq(str, k + 1, k + Len(q)) = q

slice(list, from, to) ==
  SubSeq(list, from + 1, IF to < Len(list) THEN to ELSE Len(list))

filteredSearchPuzzles_caseSensitive ==
  slice(SelectSeq(puzzles, LAMBDA id : includesText(names[id], searchQuery)),
        0, 5)

filteredSearchPuzzles ==
  slice(SelectSeq(puzzles,
                  LAMBDA id : includesText(toLowerCase(names[id]),
                                           toLowerCase(searchQuery))),
        0, 5)

\* onChange of the search box.
SetSearchQuery(q) ==
  /\ ~effectPending
  /\ searchQuery' = q
  /\ last' = Event("setSearchQuery", 0, -1, "", 0)
  /\ Emit(<<>>)
  /\ UNCHANGED <<activeProjectId, others, chapters, names, positions, connections, transform, isPanning,
                 lastMousePos, selectedNodeIds, selectionRect, draggingNodeId,
                 dragLine, collapsedNodes, now, budget>>

\* click on a search result: the list is shown while the query is not empty.
LocateNode(id) ==
  /\ ~effectPending
  /\ searchQuery # <<>>
  /\ includes(filteredSearchPuzzles, id)
  /\ transform' = locateNode(id).transform
  /\ selectedNodeIds' = locateNode(id).selectedNodeIds
  /\ searchQuery' = <<>>
  /\ last' = Event("locateNode", id, -1, "", 0)
  /\ Emit(<<>>)
  /\ UNCHANGED <<activeProjectId, others, chapters, names, positions, connections, isPanning,
                 lastMousePos, selectionRect, draggingNodeId, dragLine,
                 collapsedNodes, now, budget>>

toggleCollapse(id) ==
  IF id \in collapsedNodes THEN collapsedNodes \ {id} ELSE collapsedNodes \cup {id}

ToggleCollapse_persists(id) ==
  /\ ~effectPending
  /\ includes(puzzles, id)
  /\ collapsedNodes' = toggleCollapse(id)
  /\ last' = Event("toggleCollapse", id, -1, "", 0)
  /\ Emit(<<Pair(positions, connections)>>)
  /\ UNCHANGED <<activeProjectId, others, chapters, names, searchQuery, positions, connections, transform, isPanning,
                 lastMousePos, selectedNodeIds, selectionRect, draggingNodeId,
                 dragLine, now, budget>>

ToggleCollapse(id) ==
  /\ ~effectPending
  /\ includes(puzzles, id)
  /\ collapsedNodes' = toggleCollapse(id)
  /\ last' = Event("toggleCollapse", id, -1, "", 0)
  /\ Emit(<<>>)
  /\ UNCHANGED <<activeProjectId, others, chapters, names, searchQuery, positions, connections, transform, isPanning,
                 lastMousePos, selectedNodeIds, selectionRect, draggingNodeId,
                 dragLine, now, budget>>

\* ----------------------------------------------------------------- new node
\* onAddNode -> handleNewPuzzle(currentProject.id, undefined, typeId): the
\* new node goes to the end of the first chapter.
handleNewPuzzle(chs, id) ==
  [c \in 1..Len(chs) |-> IF c = 1 THEN Append(chs[c], id) ELSE chs[c]]

AddNode(id) ==
  /\ ~effectPending
  /\ ~includes(puzzles, id)
  /\ \A m \in NodeIds : m < id => includes(puzzles, m)
  /\ chapters' = handleNewPuzzle(chapters, id)
  /\ names' = [n \in DOMAIN names \cup {id} |->
                 IF n = id THEN NewNodeName ELSE names[n]]
  /\ last' = Event("addNode", id, -1, "", 0)
  /\ effectPending' = TRUE
  /\ calls' = <<>>
  /\ UNCHANGED <<activeProjectId, others, searchQuery, canvasState, emitted, positions, connections, transform,
                 isPanning, lastMousePos, selectedNodeIds, selectionRect,
                 draggingNodeId, dragLine, collapsedNodes, now, budget>>

\* Sidebar onAddPuzzle -> handleNewPuzzle(projId, chId, typeId) for the
\* project on the canvas: the new node goes to the end of chapter chId.
handleNewPuzzleIn(chs, chapterId, id) ==
  [c \in 1..Len(chs) |-> IF c = chapterId THEN Append(chs[c], id) ELSE chs[c]]

AddPuzzle(chId, id) ==
  /\ ~effectPending
  /\ chId \in 1..Len(chapters)
  /\ ~includes(puzzles, id)
  /\ chapters' = handleNewPuzzleIn(chapters, chId, id)
  /\ names' = [n \in DOMAIN names \cup {id} |->
                 IF n = id THEN NewNodeName ELSE names[n]]
  /\ last' = [Event("addPuzzle", id, -1, "", 0) EXCEPT !.idx = chId]
  /\ effectPending' = TRUE
  /\ calls' = <<>>
  /\ UNCHANGED <<activeProjectId, others, searchQuery, canvasState, emitted, positions, connections, transform,
                 isPanning, lastMousePos, selectedNodeIds, selectionRect,
                 draggingNodeId, dragLine, collapsedNodes, now, budget>>

\* ------------------------------------------------------- another project
\* onOpenCanvas(projId) of the sidebar while the canvas is shown: the App
\* state activeProjectId changes and FlowCanvas, which stays mounted, gets
\* the other project as its project prop; its own state is kept and the
\* [puzzles] effect runs for the new node list.
OpenCanvas(projId) ==
  /\ ~effectPending
  /\ projId \in DOMAIN others
  /\ activeProjectId' = projId
  /\ others' = [q \in (DOMAIN others \ {projId}) \cup {activeProjectId} |->
                  IF q = activeProjectId
                  THEN [chapters |-> chapters, names |-> names,
                        canvasState |-> canvasState]
                  ELSE others[q]]
  /\ chapters' = others[projId].chapters
  /\ names' = others[projId].names
  /\ canvasState' = others[projId].canvasState
  /\ effectPending' = TRUE
  /\ calls' = <<>>
  /\ last' = Event("openCanvas", projId, -1, "", 0)
  /\ UNCHANGED <<searchQuery, emitted, positions, connections, transform,
                 isPanning, lastMousePos, selectedNodeIds, selectionRect,
                 draggingNodeId, dragLine, collapsedNodes, now, budget>>

\* ------------------------------------------------------- specifications
\* Spec: the pointer state machine.  Two nodes, every pointer-down target
\* and button, move, up, leave and wheel, with the pointer at one place.
Init == InitFrom(<< <<1, 2>>, <<>> >>, Pair(<<>>, <<>>))

Next ==
  \/ EnsurePositions
  \/ \E b \in Buttons : MouseDownBackground(P0, b)
  \/ \E id \in NodeIds, part \in {"body", "socket", "controls"}, b \in Buttons :
       MouseDownNode(id, part, P0, b)
  \/ \E id \in NodeIds, b \in Buttons : SocketMouseDown(id, P0, b)
  \/ \E i \in 1..MaxConns, b \in Buttons : UnplugMouseDown(i, P0, b)
  \/ MouseMove(P0)
  \/ \E id \in NodeIds : MouseUp(id, "body")
  \/ MouseUp(0, "background")
  \/ MouseLeave
  \/ \E id \in NodeIds : SocketMouseUp(id)
  \/ Wheel(-4000, P0)

Spec == Init /\ [][Next]_vars

\* SpecConn: the connection store.  Three nodes, connection drags from
\* output sockets and unplug handles, releases on input sockets and on the
\* background, right-click removal, relabelling, and the clock.
InitConn == InitFrom(<< <<1, 2>>, <<3>> >>, Pair(<<>>, <<>>))

NextConn ==
  \/ EnsurePositions
  \/ Tick
  \/ \E id \in NodeIds : SocketMouseDown(id, P0, 0)
  \/ \E i \in 1..MaxConns : UnplugMouseDown(i, P0, 0)
  \/ MouseUp(0, "background")
  \/ \E id \in NodeIds : SocketMouseUp(id)
  \/ \E i \in 1..MaxConns : ContextMenuConnection(i)
  \/ \E i \in 1..MaxConns, l \in Labels : EditConnectionLabel(i, l)

SpecConn == InitConn /\ [][NextConn]_vars

\* SpecEdit: editing the connections of two nodes.  Connection drags in
\* both directions, releases, right-click removal, relabelling, the clock.
InitEdit == InitFrom(<< <<1, 2>> >>, Pair(<<>>, <<>>))

NextEdit ==
  \/ EnsurePositions
  \/ Tick
  \/ \E id \in 1..2 : SocketMouseDown(id, P0, 0)
  \/ \E i \in 1..MaxConns : UnplugMouseDown(i, P0, 0)
  \/ MouseUp(0, "background")
  \/ \E id \in 1..2 : SocketMouseUp(id)
  \/ \E i \in 1..MaxConns : ContextMenuConnection(i)
  \/ \E i \in 1..MaxConns, l \in Labels : EditConnectionLabel(i, l)

SpecEdit == InitEdit /\ [][NextEdit]_vars

\* SpecProjects: two projects with stored canvas states.  The canvas of
\* project 1 is shown; the sidebar opens the canvas of either project,
\* nodes are dragged and a connection is removed.
StoredProject(a, b, connId) ==
  [chapters |-> << <<a, b>> >>,
   names |-> [n \in {a, b} |-> NewNodeName],
   canvasState |->
     Pair([n \in {a, b} |-> IF n = a THEN GridPosition(0) ELSE GridPosition(1)],
          <<[id |-> connId, sourceId |-> a, targetId |-> b, label |-> "opens"]>>)]

InitProjectsTwo ==
  InitProjects(StoredProject(1, 2, 0).chapters, StoredProject(1, 2, 0).names,
               StoredProject(1, 2, 0).canvasState,
               [q \in {2} |-> StoredProject(3, 4, 1)])

NextProjects ==
  \/ EnsurePositions
  \/ \E projId \in 1..2 : OpenCanvas(projId)
  \/ \E id \in 1..4 : MouseDownNode(id, "body", P0, 0)
  \/ MouseMove(P1)
  \/ MouseUp(0, "background")
  \/ ContextMenuConnection(1)

SpecProjects == InitProjectsTwo /\ [][NextProjects]_vars

\* ------------------------------------------------------ moving a node
\* The chapters and the node names of every project, the one on the
\* canvas included.  A chapter identifier is <<project, place in it>>.
ProjectChapters ==
  [q \in DOMAIN others \cup {activeProjectId} |->
     IF q = activeProjectId THEN chapters ELSE others[q].chapters]

ProjectNames ==
  [q \in DOMAIN others \cup {activeProjectId} |->
     IF q = activeProjectId THEN names ELSE others[q].names]

ChapterIds ==
  UNION {{<<q, c>> : c \in 1..Len(ProjectChapters[q])} : q \in DOMAIN ProjectChapters}

\* handleMovePuzzle(puzzleId, targetChapterId) on the chapters of all
\* projects: the node is filtered out of every chapter of every project
\* and, if it was found, appended to every chapter with the target id.
handleMovePuzzle(projs, puzzleId, targetChapterId) ==
  LET found == \E q \in DOMAIN projs : \E c \in 1..Len(projs[q]) :
                   includes(projs[q][c], puzzleId)
      updated == [q \in DOMAIN projs |->
                    [c \in 1..Len(projs[q]) |->
                       SelectSeq(projs[q][c], LAMBDA item : item # puzzleId)]]
  IN  IF ~found THEN projs
      ELSE [q \in DOMAIN projs |->
              [c \in 1..Len(projs[q]) |->
                 IF <<q, c>> = targetChapterId
                 THEN Append(updated[q][c], puzzleId) ELSE updated[q][c]]]

\* A sidebar drop of node puzzleId on the chapter targetChapterId of any
\* project while the canvas is shown.
MovePuzzle(puzzleId, targetChapterId) ==
  LET projs == ProjectChapters
      owner == CHOOSE q \in DOMAIN projs : includes(flatMap(projs[q]), puzzleId)
      final == handleMovePuzzle(projs, puzzleId, targetChapterId)
      nm(q) == [n \in (DOMAIN ProjectNames[q] \ {puzzleId})
                       \cup (IF q = targetChapterId[1] THEN {puzzleId} ELSE {}) |->
                  IF n = puzzleId THEN ProjectNames[owner][puzzleId]
                  ELSE ProjectNames[q][n]]
  IN  /\ ~effectPending
      /\ targetChapterId \in ChapterIds
      /\ \E q \in DOMAIN projs : includes(flatMap(projs[q]), puzzleId)
      /\ chapters' = final[activeProjectId]
      /\ names' = nm(activeProjectId)
      /\ others' = [q \in DOMAIN others |->
                      [others[q] EXCEPT !.chapters = final[q], !.names = nm(q)]]
      /\ last' = Event("movePuzzle", puzzleId, -1, "", 0)
      /\ effectPending' = TRUE
      /\ calls' = <<>>
      /\ UNCHANGED <<activeProjectId, searchQuery, canvasState, emitted, positions, connections, transform,
                     isPanning, lastMousePos, selectedNodeIds, selectionRect,
                     draggingNodeId, dragLine, collapsedNodes, now, budget>>

\* SpecMove: nodes dropped on chapters.  Project 1 with two chapters is on
\* the canvas, project 2 with one chapter is stored; every node is dropped
\* on every chapter the sidebar shows.
InitMove ==
  InitProjects(<< <<1, 2>>, <<3>> >>, [n \in 1..3 |-> NewNodeName], Pair(<<>>, <<>>),
               [q \in {2} |-> [chapters |-> << <<4>> >>,
                               names |-> [n \in {4} |-> NewNodeName],
                               canvasState |-> Pair(<<>>, <<>>)]])

NextMove ==
  \/ EnsurePositions
  \/ \E puzzleId \in 1..4, q \in 1..2, c \in 1..2 : MovePuzzle(puzzleId, <<q, c>>)
  \/ \E projId \in 1..2 : OpenCanvas(projId)

SpecMove == InitMove /\ [][NextMove]_vars

\* SpecEmit: what reaches onUpdate.  Node drags, connection drags,
\* removal, relabelling and nodes added from the canvas menu.
InitEmit ==
  \E cs \in {Pair(<<>>, <<>>), Pair([n \in {1} |-> [x |-> R(0), y |-> R(0)]], <<>>)} :
     InitFrom(<< <<1>>, <<>> >>, cs)

NextEmit ==
  \/ EnsurePositions
  \/ AddNode(2)
  \/ \E id \in 1..2 : MouseDownNode(id, "body", P0, 0)
  \/ \E p \in {P0, P1} : MouseMove(p)
  \/ MouseUp(0, "background")
  \/ MouseLeave
  \/ \E id \in 1..2 : SocketMouseDown(id, P0, 0)
  \/ \E i \in 1..MaxConns : UnplugMouseDown(i, P0, 0)
  \/ \E id \in 1..2 : SocketMouseUp(id)
  \/ \E i \in 1..MaxConns : ContextMenuConnection(i)
  \/ \E i \in 1..MaxConns : EditConnectionLabel(i, "opens")

SpecEmit == InitEmit /\ [][NextEmit]_vars

\* SpecPlace: auto-placement over any node list of up to MaxPlaced nodes in
\* two chapters and any stored position map.
PlacedIds == 1..MaxPlaced

NodeLists ==
  UNION {{l \in [1..k -> PlacedIds] : \A i, j \in 1..k : l[i] = l[j] => i = j} :
         k \in 0..MaxPlaced}

StoredPositions ==
  UNION {[S -> {[x |-> R(0), y |-> R(0)], [x |-> R(450), y |-> R(100)]}] :
         S \in SUBSET PlacedIds}

InitPlace ==
  \E l \in NodeLists, k \in 0..MaxPlaced, pos \in StoredPositions :
     /\ k <= Len(l)
     /\ InitFrom(<<SubSeq(l, 1, k), SubSeq(l, k + 1, Len(l))>>, Pair(pos, <<>>))

NextPlace ==
  \/ EnsurePositions
  \/ \E id \in PlacedIds : AddNode(id)

SpecPlace == InitPlace /\ [][NextPlace]_vars

\* SpecAdd: nodes added to either of two chapters of a project none of whose
\* nodes has a stored position, so every position is one auto-placement
\* assigned.
InitAdd ==
  \E l \in NodeLists, k \in 0..MaxPlaced :
     /\ k <= Len(l)
     /\ InitFrom(<<SubSeq(l, 1, k), SubSeq(l, k + 1, Len(l))>>, Pair(<<>>, <<>>))

NextAdd ==
  \/ EnsurePositions
  \/ \E id \in PlacedIds : AddNode(id)
  \/ \E chId \in 1..2, id \in PlacedIds : AddPuzzle(chId, id)

SpecAdd == InitAdd /\ [][NextAdd]_vars

\* SpecSettle: SpecAdd with the effect scheduled: React runs a pending
\* [puzzles] effect after the render that changed puzzles.
SpecSettle == InitAdd /\ [][NextAdd]_vars /\ WF_vars(EnsurePositions)

\* SpecDrag: moving nodes.  Three nodes in a row, marquee and click
\* selection, node drags between two pointer places, panning and zoom.
InitDrag == InitFrom(<< <<1, 2, 3>> >>, Pair(<<>>, <<>>))

NextDrag ==
  \/ EnsurePositions
  \/ \E b \in Buttons : MouseDownBackground(P0, b)
  \/ \E id \in 1..3 : MouseDownNode(id, "body", P0, 0)
  \/ \E p \in {P0, P1} : MouseMove(p)
  \/ MouseUp(0, "background")
  \/ \E d \in {-1000, 500} : Wheel(d, P0)

SpecDrag == InitDrag /\ [][NextDrag]_vars

\* SpecMarquee: marquee selection.  Three nodes in a row, marquees between
\* three pointer places with either button down, collapsed cards and zoom.
InitMarquee == InitFrom(<< <<1, 2, 3>> >>, Pair(<<>>, <<>>))

NextMarquee ==
  \/ EnsurePositions
  \/ \E p \in {V0, V1}, b \in Buttons : MouseDownBackground(p, b)
  \/ \E p \in {V0, V1, V2} : MouseMove(p)
  \/ MouseUp(0, "background")
  \/ \E id \in 1..2 : ToggleCollapse(id)
  \/ Wheel(500, V2)

SpecMarquee == InitMarquee /\ [][NextMarquee]_vars

\* SpecSelect: selecting by click.  Three nodes in a row, a marquee from V0
\* to V1, pointer-downs of either button on the node bodies, node drags.
InitSelect == InitFrom(<< <<1, 2, 3>> >>, Pair(<<>>, <<>>))

NextSelect ==
  \/ EnsurePositions
  \/ MouseDownBackground(V0, 0)
  \/ \E id \in 1..3, b \in Buttons : MouseDownNode(id, "body", V2, b)
  \/ \E p \in {V0, V1} : MouseMove(p)
  \/ MouseUp(0, "background")

SpecSelect == InitSelect /\ [][NextSelect]_vars

\* SpecView: the view transform.  Wheel events of small and large deltas,
\* panning, locating a node from the search box and a connection drag.
InitView == InitFrom(<< <<1, 2, 3>> >>, Pair(<<>>, <<>>))

NextView ==
  \/ EnsurePositions
  \/ MouseDownBackground(V0, 1)
  \/ SocketMouseDown(1, V2, 0)
  \/ \E p \in {V0, V1} : MouseMove(p)
  \/ MouseUp(0, "background")
  \/ \E d \in WheelDeltas : Wheel(d, V2)
  \/ SetSearchQuery(<<"e">>)
  \/ \E id \in NodeIds : LocateNode(id)

SpecView == InitView /\ [][NextView]_vars

\* SpecLook: looking around.  Two nodes with stored positions and a stored
\* connection; panning, zoom, search and locate, marquee and collapse.
InitLook ==
  InitFrom(<< <<1, 2>> >>,
           Pair([n \in 1..2 |-> GridPosition(n - 1)],
                <<[id |-> 0, sourceId |-> 1, targetId |-> 2, label |-> "opens"]>>))

NextLook ==
  \/ EnsurePositions
  \/ \E b \in Buttons : MouseDownBackground(V0, b)
  \/ MouseMove(V1)
  \/ MouseUp(0, "background")
  \/ Wheel(500, V2)
  \/ SetSearchQuery(<<"e">>)
  \/ LocateNode(2)
  \/ ToggleCollapse(1)

SpecLook == InitLook /\ [][NextLook]_vars

\* SpecSearch: the search box.  MaxListed nodes in two chapters, every
\* assignment of three names to them, four queries and the empty one, and
\* clicks on the results.
SearchNames == {<<"a", "B">>, <<"B", "a", "b">>, <<"b">>}

Queries == {<<>>, <<"a">>, <<"A", "b">>, <<"b", "A">>, <<"B", "B">>}

ListedChapters ==
  << <<2, 1>>, [i \in 1..(MaxListed - 2) |-> i + 2] >>

InitSearch ==
  \E nm \in [1..MaxListed -> SearchNames] :
     InitNamed(ListedChapters, nm, Pair(<<>>, <<>>))

NextSearch ==
  \/ EnsurePositions
  \/ \E q \in Queries : SetSearchQuery(q)
  \/ \E id \in 1..2 : LocateNode(id)

SpecSearch == InitSearch /\ [][NextSearch]_vars

\* ------------------------------------------------------------- properties
Panning == isPanning
NodeDragging == draggingNodeId # 0
MarqueeSelecting == selectionRect # <<>>
ConnectionDragging == dragLine # <<>>

ActiveModes ==
  {m \in {"panning", "node", "marquee", "connection"} :
     \/ m = "panning" /\ Panning
     \/ m = "node" /\ NodeDragging
     \/ m = "marquee" /\ MarqueeSelecting
     \/ m = "connection" /\ ConnectionDragging}

\* C1: in every reachable state at most one of the four interaction modes
\* (panning, node-dragging, marquee-selecting, connection-dragging) is active.
C1_AtMostOneMode == Cardinality(ActiveModes) <= 1

\* The connection a reconnect drag carries: its index in the list, or 0.
Carried(dl) ==
  IF dl = <<>> \/ dl[1].isReconnectingId = -1 THEN {}
  ELSE {i \in 1..Len(connections) : connections[i].id = dl[1].isReconnectingId
                                    /\ connections[i].sourceId = dl[1].sourceId}

RemoveAt(seq, i) == SubSeq(seq, 1, i - 1) \o SubSeq(seq, i + 1, Len(seq))

\* C2: a reconnect drag of connection (s,t) released on the input socket of
\* a node u (u # s, u # t, no (s,u) present) leaves a connection (s,u) and
\* no connection (s,t).
C2_ReconnectMovesConnection ==
  [][\A u \in NodeIds : \A i \in Carried(dragLine) :
       (/\ last'.op = "socketMouseUp" /\ last'.id = u
        /\ u # connections[i].sourceId /\ u # connections[i].targetId
        /\ ~exists(connections, connections[i].sourceId, u))
       => /\ exists(connections', connections[i].sourceId, u)
          /\ ~exists(connections', connections[i].sourceId, connections[i].targetId)]_vars

NoDuplicatePairs ==
  \A i, j \in 1..Len(connections) :
     (connections[i].sourceId = connections[j].sourceId
      /\ connections[i].targetId = connections[j].targetId) => i = j

\* C3: no two connections share an ordered (sourceId, targetId) pair, and a
\* drag from a released on the input socket of b while (a,b) exists leaves
\* the connection list unchanged.
C3_NoDuplicateConnection ==
  /\ []NoDuplicatePairs
  /\ [][\A b \in NodeIds :
          (/\ last'.op = "socketMouseUp" /\ last'.id = b
           /\ dragLine # <<>>
           /\ exists(connections, dragLine[1].sourceId, b))
          => connections' = connections]_vars

C3_Witness ==
  /\ last.op = "socketMouseUp" /\ last.drag # <<>>
  /\ last.drag[1].sourceId # last.id
  /\ exists(connections, last.drag[1].sourceId, last.id)
  /\ calls = <<>> /\ dragLine = <<>>

NoSelfLoop == \A i \in 1..Len(connections) : connections[i].sourceId # connections[i].targetId

\* C4: no connection has sourceId = targetId, and a drag released on the
\* input socket of its own source node leaves the connection list unchanged.
C4_NoSelfLoop ==
  /\ []NoSelfLoop
  /\ [][\A a \in NodeIds :
          (/\ last'.op = "socketMouseUp" /\ last'.id = a
           /\ dragLine # <<>> /\ dragLine[1].sourceId = a)
          => connections' = connections]_vars

C4_Witness ==
  /\ last.op = "socketMouseUp" /\ last.drag # <<>>
  /\ last.drag[1].sourceId = last.id
  /\ NoSelfLoop /\ calls = <<>>

\* C5: a reconnect drag of connection c released over empty canvas removes
\* exactly c, creates nothing, leaves every other connection as it was and
\* ends the drag.
C5_ReconnectCancelRemovesExactlyOne ==
  [][\A i \in Carried(dragLine) :
       (last'.op = "mouseUp" /\ last'.part = "background")
       => /\ connections' = RemoveAt(connections, i)
          /\ dragLine' = <<>>]_vars

\* C6: a fresh drag from the output socket of a released on the input socket
\* of b # a, with no (a,b) present, appends one connection (a, b, "") to the
\* unchanged list and ends the drag.
C6_FreshDragAppends ==
  [][\A b \in NodeIds :
       (/\ last'.op = "socketMouseUp" /\ last'.id = b
        /\ dragLine # <<>> /\ dragLine[1].isReconnectingId = -1
        /\ dragLine[1].sourceId # b
        /\ ~exists(connections, dragLine[1].sourceId, b))
       => /\ Len(connections') = Len(connections) + 1
          /\ SubSeq(connections', 1, Len(connections)) = connections
          /\ connections'[Len(connections')].sourceId = dragLine[1].sourceId
          /\ connections'[Len(connections')].targetId = b
          /\ connections'[Len(connections')].label = ""
          /\ dragLine' = <<>>]_vars

C6_Witness ==
  /\ last.op = "socketMouseUp" /\ last.drag # <<>>
  /\ last.drag[1].isReconnectingId = -1
  /\ calls # <<>> /\ dragLine = <<>>
  /\ Len(connections) >= 2
  /\ connections[Len(connections)].sourceId = last.drag[1].sourceId
  /\ connections[Len(connections)].targetId = last.id
  /\ connections[Len(connections)].label = ""

\* Every onUpdate call of the last handler got the in-memory position map,
\* and the last of them the in-memory connection list too.
CallsAreCurrent ==
  /\ calls # <<>>
  /\ \A k \in 1..Len(calls) : calls[k].positions = positions
  /\ calls[Len(calls)] = Pair(positions, connections)
  /\ emitted = <<calls[Len(calls)]>>

\* C7: each mutating operation (node-drag end, connection add, remove,
\* relabel, auto-placement) calls onUpdate with the complete in-memory
\* positions and connections as they stand after it; so whenever no
\* interaction mode is active the most recently emitted pair equals the
\* in-memory positions and connections.
C7_UpdatesAreEmitted ==
  /\ [](ActiveModes = {} /\ emitted # <<>>
        => emitted[1] = Pair(positions, connections))
  /\ [][(\/ connections' # connections
         \/ last'.op \in {"removeConnection", "updateConnectionLabel"}
         \/ draggingNodeId # 0 /\ draggingNodeId' = 0
         \/ last'.op = "ensurePositions" /\ positions' # positions)
        => CallsAreCurrent']_vars

C7_Witness ==
  /\ last.op = "mouseUp" /\ ActiveModes = {}
  /\ budget.drag > 0
  /\ connections # <<>>
  /\ 2 \in DOMAIN positions
  /\ CallsAreCurrent

\* C8: after auto-placement every node of the list has a position, and
\* every position stored before is still there with the same value.
C8_EnsurePositionsKeeps ==
  /\ [](~effectPending => \A i \in 1..Len(puzzles) : puzzles[i] \in DOMAIN positions)
  /\ [][last'.op = "ensurePositions"
        => /\ \A i \in 1..Len(puzzles) : puzzles[i] \in DOMAIN positions'
           /\ \A n \in DOMAIN positions :
                n \in DOMAIN positions' /\ positions'[n] = positions[n]]_vars

C8_Witness ==
  /\ last.op = "ensurePositions" /\ calls # <<>>
  /\ \A i \in 1..Len(puzzles) : puzzles[i] \in DOMAIN positions
  /\ \E i \in 1..Len(puzzles) : positions[puzzles[i]] = [x |-> R(0), y |-> R(0)]
  /\ \E i \in 1..Len(puzzles) : positions[puzzles[i]] = [x |-> R(100), y |-> R(350)]

\* C9: a node without a position, at 0-based index i of the node list, is
\* put at x = 100 + (i mod 3) * 350, y = 100 + (i div 3) * 250; the list
\* [n1, n2, n3] without positions gives (100,100), (450,100), (800,100).
C9_GridPlacement ==
  [][last'.op = "ensurePositions"
     => /\ \A i \in 1..Len(puzzles) :
             puzzles[i] \notin DOMAIN positions
             => /\ positions'[puzzles[i]].x = R(100 + ((i - 1) % 3) * 350)
                /\ positions'[puzzles[i]].y = R(100 + ((i - 1) \div 3) * 250)
        /\ (puzzles = <<1, 2, 3>> /\ DOMAIN positions = {})
           => positions' = <<[x |-> R(100), y |-> R(100)],
                             [x |-> R(450), y |-> R(100)],
                             [x |-> R(800), y |-> R(100)]>>]_vars

C9_Witness ==
  /\ last.op = "ensurePositions" /\ calls # <<>>
  /\ Len(puzzles) = 4 /\ canvasState.positions = positions
  /\ \A i \in 1..4 : positions[puzzles[i]] =
        [x |-> R(100 + ((i - 1) % 3) * 350), y |-> R(100 + ((i - 1) \div 3) * 250)]

\* C10: on each pointer-move with screen delta (dx,dy) while node-dragging
\* at scale s, every selected node's position changes by (dx/s, dy/s) and
\* every other node's position is unchanged.
C10_BatchDrag ==
  [][(last'.op = "mouseMove" /\ draggingNodeId # 0)
     => /\ DOMAIN positions' = DOMAIN positions
        /\ \A n \in DOMAIN positions :
             positions'[n] =
               IF includes(selectedNodeIds, n)
               THEN [x |-> RAdd(positions[n].x,
                                RDiv(R(lastMousePos'[1] - lastMousePos[1]), transform.scale)),
                     y |-> RAdd(positions[n].y,
                                RDiv(R(lastMousePos'[2] - lastMousePos[2]), transform.scale))]
               ELSE positions[n]]_vars

\* The box of node n on the screen: 280 wide, 100 high when collapsed and
\* 250 otherwise, scaled, at its projected position.
ScreenBox(n) ==
  LET left == RAdd(RAdd(RMul(positions[n].x, transform.scale), transform.x), R(RectLeft))
      top == RAdd(RAdd(RMul(positions[n].y, transform.scale), transform.y), R(RectTop))
  IN  [left |-> left, top |-> top,
       right |-> RAdd(left, RMul(R(280), transform.scale)),
       bottom |-> RAdd(top, RMul(R(IF n \in collapsedNodes THEN 100 ELSE 250),
                                 transform.scale))]

\* The box of node n strictly overlaps the rectangle spanned by a and b.
StrictlyOverlaps(n, a, b) ==
  LET box == ScreenBox(n)
      lo(u, v) == IF u < v THEN u ELSE v
      hi(u, v) == IF u < v THEN v ELSE u
  IN  /\ RLess(box.left, R(hi(a[1], b[1]))) /\ RLess(R(lo(a[1], b[1])), box.right)
      /\ RLess(box.top, R(hi(a[2], b[2]))) /\ RLess(R(lo(a[2], b[2])), box.bottom)

\* C11: on every pointer-move while a marquee is active the selection
\* becomes exactly the set of nodes whose screen box strictly overlaps the
\* rectangle spanned by the anchor and the pointer, whatever it was before.
C11_MarqueeSelection ==
  [][(last'.op = "mouseMove" /\ selectionRect # <<>>)
     => Range(selectedNodeIds') =
          {n \in DOMAIN positions :
             StrictlyOverlaps(n, <<selectionRect[1].startX, selectionRect[1].startY>>,
                              lastMousePos')}]_vars

SameConnection(c, d) ==
  c.id = d.id /\ c.sourceId = d.sourceId /\ c.targetId = d.targetId

Gone(i) ==
  ~\E j \in 1..Len(connections') : SameConnection(connections[i], connections'[j])

\* C12: the set of node ids that have a position never shrinks, and a
\* connection leaves the list only by a right-click on it or by the release
\* over empty space (or pointer-leave) of a reconnect drag that carries its
\* identifier.
C12_OnlyExplicitRemoval ==
  [][/\ DOMAIN positions \subseteq DOMAIN positions'
     /\ \A i \in 1..Len(connections) :
          Gone(i)
          => \/ last'.op = "removeConnection" /\ last'.idx = i
             \/ /\ last'.op \in {"mouseUp", "mouseLeave"}
                /\ dragLine # <<>>
                /\ dragLine[1].isReconnectingId = connections[i].id]_vars

ScaleInRange ==
  ~RLess(transform.scale, <<1, 10>>) /\ ~RLess(R(5), transform.scale)

\* C13: the zoom scale is within [0.1, 5] in every reachable state, and
\* only a wheel event changes it.
C13_ScaleClamped ==
  /\ []ScaleInRange
  /\ [][transform'.scale # transform.scale => last'.op = "wheel"]_vars

C13_Witness ==
  /\ transform.scale = R(5)
  /\ budget.wheel > 0 /\ budget.pan > 0
  /\ last.op = "locateNode"
  /\ dragLine # <<>>

\* The container-relative place the world point w is drawn at under tr.
Project(w, tr) ==
  <<RAdd(RMul(w[1], tr.scale), tr.x), RAdd(RMul(w[2], tr.scale), tr.y)>>

\* The world point drawn at the container-relative place m under tr.
Unproject(m, tr) ==
  <<RDiv(RSub(m[1], tr.x), tr.scale), RDiv(RSub(m[2], tr.y), tr.scale)>>

\* C14: for a wheel event with the cursor at container-relative m, the world
\* point that was at m under the old pan and scale is at m again under the
\* new pan and the new clamped scale.
C14_ZoomAnchoring ==
  [][last'.op = "wheel"
     => LET m == <<R(last'.at[1] - RectLeft), R(last'.at[2] - RectTop)>>
        IN  Project(Unproject(m, transform), transform') = m]_vars

C14_Witness ==
  /\ last.op = "wheel"
  /\ transform.scale = <<1, 10>>
  /\ budget.pan > 0
  /\ Project(Unproject(<<R(last.at[1] - RectLeft), R(last.at[2] - RectTop)>>,
                        [x |-> R(0), y |-> R(0), scale |-> R(1)]), transform)
       # <<R(last.at[1] - RectLeft), R(last.at[2] - RectTop)>>

\* The world points the projections are tried on: the node positions, the
\* card centres, and the world points under three places of the screen.
SamplePoints ==
  {positions[n] : n \in DOMAIN positions}
  \cup {[x |-> RAdd(positions[n].x, R(140)), y |-> RAdd(positions[n].y, R(100))] :
          n \in DOMAIN positions}
  \cup {screenToWorld([x |-> R(v[1]), y |-> R(v[2])], transform) : v \in {V0, V1, V2}}

\* C15: the screen-to-world projection of the drag preview undoes the
\* world-to-screen projection of the hit test, for every point, pan and
\* scale in [0.1, 5].
C15_ProjectionsInverse ==
  \A p \in SamplePoints : screenToWorld(worldToScreen(p, transform), transform) = p

C15_Witness ==
  /\ dragLine # <<>>
  /\ transform.scale = <<1, 2>>
  /\ transform.x # R(0) /\ transform.y # R(0)
  /\ budget.pan > 0
  /\ Cardinality(SamplePoints) >= 9

ViewportCentre == <<RDiv(R(RectWidth), R(2)), RDiv(R(RectHeight), R(2))>>

\* The world point locateNode centres: the node position plus (140, 100).
Anchor(id) == <<RAdd(positions[id].x, R(140)), RAdd(positions[id].y, R(100))>>

\* C16: locateNode of a node that has a position sets the pan so that the
\* point (pos.x + 140, pos.y + 100) is drawn at the centre of the viewport
\* at the current scale, keeps the scale and selects exactly that node;
\* for an id without a position it changes nothing.
C16_LocateNode ==
  /\ [](\A id \in (1..(MaxNodes + 1)) \ DOMAIN positions :
          locateNode(id) = [transform |-> transform,
                            selectedNodeIds |-> selectedNodeIds])
  /\ [][last'.op = "locateNode"
        => IF last'.id \in DOMAIN positions
           THEN /\ Project(Anchor(last'.id), transform') = ViewportCentre
                /\ transform'.scale = transform.scale
                /\ selectedNodeIds' = <<last'.id>>
                /\ positions' = positions
           ELSE transform' = transform /\ selectedNodeIds' = selectedNodeIds]_vars

C16_Witness ==
  /\ last.op = "locateNode" /\ last.id = 3
  /\ transform.scale = <<1, 2>>
  /\ budget.pan > 0
  /\ selectedNodeIds = <<3>>
  /\ Project(Anchor(3), transform) = ViewportCentre
  /\ searchQuery = <<>>

\* C17: a completed drag from a to b while a labelled connection (a,b)
\* exists is rejected: that connection keeps its identifier and its label
\* and the list gets no second connection.
C17_DuplicateKeepsLabel ==
  [][\A b \in NodeIds : \A i \in 1..Len(connections) :
       (/\ last'.op = "socketMouseUp" /\ last'.id = b
        /\ dragLine # <<>>
        /\ connections[i].sourceId = dragLine[1].sourceId
        /\ connections[i].targetId = b
        /\ connections[i].label # "")
       => /\ Len(connections') = Len(connections)
          /\ connections'[i].id = connections[i].id
          /\ connections'[i].label = connections[i].label
          /\ connections'[i].sourceId = connections[i].sourceId
          /\ connections'[i].targetId = connections[i].targetId]_vars

C17_Witness ==
  /\ last.op = "socketMouseUp" /\ last.drag # <<>>
  /\ last.drag[1].isReconnectingId = -1
  /\ calls = <<>>
  /\ Len(connections) = 1
  /\ connections[1].sourceId = last.drag[1].sourceId
  /\ connections[1].targetId = last.id
  /\ connections[1].label = "opens"
  /\ connections[1].id # now

\* The places of the connections whose id is not id.
Kept(id) == {i \in 1..Len(connections) : connections[i].id # id}

\* r is the list of the connections at the places of Kept(id), in order.
IsKeptList(r, id) ==
  /\ Len(r) = Cardinality(Kept(id))
  /\ \A i \in Kept(id) : r[Cardinality({j \in Kept(id) : j <= i})] = connections[i]

\* C18: removeConnection(id) deletes every connection with that id and
\* keeps all others, in order, and the positions; with no such connection
\* the list is the same.
C18_RemoveConnection ==
  /\ [](\A id \in Clock :
          /\ IsKeptList(removeConnection(connections, id), id)
          /\ (Kept(id) = 1..Len(connections)
              => removeConnection(connections, id) = connections))
  /\ [][/\ last'.op = "removeConnection"
           => /\ IsKeptList(connections', last'.conn)
              /\ positions' = positions
        /\ (/\ last'.op = "mouseUp"
            /\ dragLine # <<>> /\ dragLine[1].isReconnectingId # -1)
           => /\ IsKeptList(connections', dragLine[1].isReconnectingId)
              /\ positions' = positions]_vars

C18_Witness ==
  /\ last.op = "removeConnection"
  /\ Len(connections) = 1
  /\ connections[1].id # last.conn
  /\ connections[1].label = "opens"
  /\ calls = <<Pair(positions, connections)>>

\* r differs from the connection list only in the label of the
\* connections whose id is id, which is label.
IsRelabelled(r, id, label) ==
  /\ Len(r) = Len(connections)
  /\ \A i \in 1..Len(connections) :
       /\ r[i].id = connections[i].id
       /\ r[i].sourceId = connections[i].sourceId
       /\ r[i].targetId = connections[i].targetId
       /\ r[i].label = IF connections[i].id = id THEN label
                       ELSE connections[i].label

\* C19: updateConnectionLabel(id, label) changes only the label of the
\* connection with that id; ids, ends, number and order of connections,
\* the other connections and the positions stay, and with no such
\* connection the list is the same.
C19_UpdateConnectionLabel ==
  /\ [](\A id \in Clock, label \in Labels :
          /\ IsRelabelled(updateConnectionLabel(connections, id, label), id, label)
          /\ (Kept(id) = 1..Len(connections)
              => updateConnectionLabel(connections, id, label) = connections))
  /\ [][last'.op = "updateConnectionLabel"
        => /\ IsRelabelled(connections', last'.conn, last'.part)
           /\ positions' = positions]_vars

C19_Witness ==
  /\ last.op = "updateConnectionLabel" /\ last.part = "opens"
  /\ Len(connections) = 2
  /\ connections[1].id # connections[2].id
  /\ connections[last.idx].label = "opens"
  /\ connections[3 - last.idx].label = ""
  /\ calls = <<Pair(positions, connections)>>

\* The letters c and d are the same up to case.
SameLetter(c, d) ==
  \/ c = d
  \/ {c, d} = {"a", "A"}
  \/ {c, d} = {"b", "B"}

\* The name of node id contains the query as a substring, up to case.
Matches(id) ==
  \E k \in 0..(Len(names[id]) - Len(searchQuery)) :
     \A j \in 1..Len(searchQuery) : SameLetter(names[id][k + j], searchQuery[j])

\* The places in the node list of the nodes that match the query.
MatchPlaces == {i \in 1..Len(puzzles) : Matches(puzzles[i])}

\* C20: for a non-empty query the search result is the list of the nodes
\* whose name contains the query up to case, in node-list order, cut after
\* the first 5; it never has more than 5 entries nor a non-matching node.
C20_Search ==
  searchQuery # <<>>
  => /\ Len(filteredSearchPuzzles) <= 5
     /\ \A k \in 1..Len(filteredSearchPuzzles) : Matches(filteredSearchPuzzles[k])
     /\ Len(filteredSearchPuzzles) =
          (IF Cardinality(MatchPlaces) < 5 THEN Cardinality(MatchPlaces) ELSE 5)
     /\ \A i \in MatchPlaces :
          Cardinality({j \in MatchPlaces : j <= i}) <= 5
          => filteredSearchPuzzles[Cardinality({j \in MatchPlaces : j <= i})] = puzzles[i]

C20_Witness ==
  /\ searchQuery = <<"A", "b">>
  /\ Cardinality(MatchPlaces) = 6
  /\ ~Matches(puzzles[3])
  /\ names[2] = <<"a", "B">>
  /\ filteredSearchPuzzles = <<2, 1, 4, 5, 6>>
  /\ last.op = "setSearchQuery"

\* The node ids of the project with chapters chs.
NodesOf(chs) == Range(flatMap(chs))

\* A canvas state that holds only positions and connections of the nodes
\* of its own project.
OwnCanvasState(cs, chs) ==
  /\ DOMAIN cs.positions \subseteq NodesOf(chs)
  /\ \A i \in 1..Len(cs.connections) :
       /\ cs.connections[i].sourceId \in NodesOf(chs)
       /\ cs.connections[i].targetId \in NodesOf(chs)

\* C21: what is persisted into a project's canvasState comes only from
\* that project: no project's canvasState holds positions or connections
\* of another project's nodes, and opening a project's canvas from the
\* sidebar while another canvas is shown does not discard its stored
\* connections.
C21_ProjectIsolation ==
  /\ [](/\ OwnCanvasState(canvasState, chapters)
        /\ \A q \in DOMAIN others :
             OwnCanvasState(others[q].canvasState, others[q].chapters))
  /\ [][(last.op = "openCanvas" /\ last'.op = "ensurePositions")
        => canvasState'.connections = canvasState.connections]_vars

\* A pointer release: mouseup on an input socket or anywhere else.
Release == {"mouseUp", "socketMouseUp"}

\* C22: a pointer release while a marquee is active, wherever it lands
\* (background, node body, input socket), discards the rectangle and keeps
\* the selection computed at the last move.
C22_ReleaseEndsMarquee ==
  [][(selectionRect # <<>> /\ last'.op \in Release)
     => selectionRect' = <<>> /\ selectedNodeIds' = selectedNodeIds]_vars

\* C23: a pointer release while node-dragging, wherever it lands, ends the
\* node drag and calls onUpdate with the in-memory position map.
C23_ReleaseEndsNodeDrag ==
  [][(draggingNodeId # 0 /\ last'.op \in Release)
     => /\ draggingNodeId' = 0
        /\ \E k \in 1..Len(calls') : calls'[k].positions = positions]_vars

\* C24: a connection drag released over empty space, over a node body or
\* over the input socket of its own source node is cancelled: no drag line
\* remains, and for a fresh drag the connection list is unchanged.
C24_ReleaseCancelsConnectionDrag ==
  [][(/\ dragLine # <<>>
      /\ \/ last'.op = "mouseUp"
         \/ last'.op = "socketMouseUp" /\ last'.id = dragLine[1].sourceId)
     => /\ dragLine' = <<>>
        /\ dragLine[1].isReconnectingId = -1 => connections' = connections]_vars

\* The pointer-downs of the last event happened on: the background, a part
\* of a node card, an output socket or an unplug handle.
PointerDown == {"mouseDown", "socketMouseDown", "unplugMouseDown"}

\* C25: a pointer-down with the middle button enters panning wherever it
\* lands (background, node body, input or output socket, unplug handle);
\* it starts no connection drag, node drag or marquee and leaves the
\* selection as it was.
C25_MiddleButtonPans ==
  [][(last'.op \in PointerDown /\ last'.btn = 1)
     => /\ isPanning'
        /\ dragLine' = dragLine
        /\ draggingNodeId' = draggingNodeId
        /\ selectionRect' = selectionRect
        /\ selectedNodeIds' = selectedNodeIds]_vars

\* C26: a marquee starts, and the selection is cleared by it, only when a
\* non-pan pointer-down lands on the empty background; a pointer-down on
\* any part of a node (body, input socket, control buttons) creates no
\* selection rectangle and does not clear the selection.
C26_MarqueeOnlyFromBackground ==
  [][(last'.op = "mouseDown" /\ last'.id # 0)
     => /\ selectionRect' = selectionRect
        /\ (selectedNodeIds # <<>> => selectedNodeIds' # <<>>)]_vars

\* C27: a non-pan pointer-down on a node body starts node-dragging for that
\* node; the selection becomes exactly that node when it was not selected
\* and is unchanged when it was.
C27_BodyDownSelects ==
  [][(last'.op = "mouseDown" /\ last'.part = "body" /\ last'.btn # 1)
     => /\ draggingNodeId' = last'.id
        /\ selectedNodeIds' = IF last'.id \in Range(selectedNodeIds)
                               THEN selectedNodeIds ELSE <<last'.id>>]_vars

C27_Witness ==
  /\ last.op = "mouseDown" /\ last.part = "body" /\ last.btn = 0
  /\ last.id = 2
  /\ draggingNodeId = 2
  /\ selectedNodeIds = <<1, 2>>
  /\ ActiveModes = {"node"}

\* C28: a fresh connection drag released over empty canvas creates and
\* removes no connection: the connection list and the position map stay
\* as they were and onUpdate is not called.
C28_FreshDragCancelWritesNothing ==
  [][(/\ dragLine # <<>> /\ dragLine[1].isReconnectingId = -1
      /\ last'.op = "mouseUp" /\ last'.part = "background")
     => /\ connections' = connections
        /\ positions' = positions
        /\ calls' = <<>>
        /\ canvasState' = canvasState]_vars

\* C29: the positions auto-placement assigns to distinct nodes are pairwise
\* distinct, whatever the sequence of node additions to the chapters.
C29_AutoPlacementDistinct ==
  \A a, b \in DOMAIN positions : a # b => positions[a] # positions[b]

\* C30: the identifiers in the connection list are pairwise distinct in
\* every reachable state, also after several connections were created
\* within one reading of the clock.
C30_ConnectionIdsDistinct ==
  \A i, j \in 1..Len(connections) :
     connections[i].id = connections[j].id => i = j

\* C31: the pointer leaving the container does what a release over empty
\* canvas does: every mode ends, an active node drag is handed to onUpdate
\* with the positions in memory, and the connection of a reconnect drag in
\* progress is removed from the list (and the shortened list handed to
\* onUpdate); a fresh drag leaves the list as it was.
C31_LeaveIsRelease ==
  [][last'.op = "mouseLeave"
     => /\ ActiveModes' = {}
        /\ positions' = positions /\ selectedNodeIds' = selectedNodeIds
        /\ draggingNodeId # 0
           => /\ calls' # <<>>
              /\ calls'[1] = Pair(positions, connections)
        /\ IF dragLine # <<>> /\ dragLine[1].isReconnectingId # -1
           THEN /\ \A i \in 1..Len(connections') :
                     connections'[i].id # dragLine[1].isReconnectingId
                /\ connections' =
                     SelectSeq(connections,
                               LAMBDA c : c.id # dragLine[1].isReconnectingId)
                /\ calls'[Len(calls')] = Pair(positions, connections')
           ELSE /\ connections' = connections
                /\ draggingNodeId = 0 => calls' = <<>>]_vars

C31_Witness ==
  /\ last.op = "mouseLeave"
  /\ last.drag # <<>> /\ last.drag[1].isReconnectingId # -1
  /\ connections = <<>> /\ ActiveModes = {}
  /\ Len(calls) = 2 /\ calls[2].connections = <<>>

\* C32: whenever a node drag is active the node recorded in draggingNodeId
\* is in the selection.
C32_DraggedNodeSelected ==
  draggingNodeId # 0 => draggingNodeId \in Range(selectedNodeIds)

\* C33: every identifier in the selection is that of a node of the current
\* node list that has a position.
C33_SelectionWithinNodes ==
  \A id \in Range(selectedNodeIds) :
     includes(puzzles, id) /\ id \in DOMAIN positions

\* Every node of the list has a position.
AllPlaced == \A i \in 1..Len(puzzles) : puzzles[i] \in DOMAIN positions

\* C34: when every node already has a position, a run of auto-placement
\* changes no position and calls onUpdate not at all; a run that does call
\* onUpdate calls it once and leaves every node placed, so the run its own
\* project refresh triggers is silent and the cycle comes to rest.
C34_PlacementSettles ==
  /\ [][last'.op = "ensurePositions"
        => /\ AllPlaced => /\ positions' = positions
                           /\ calls' = <<>>
                           /\ ~effectPending'
           /\ ~AllPlaced => /\ Len(calls') = 1
                            /\ calls'[1].positions = positions'
                            /\ AllPlaced']_vars
  /\ [][(last.op = "ensurePositions" /\ calls # <<>> /\ last'.op = "ensurePositions")
        => calls' = <<>> /\ ~effectPending']_vars
  /\ (effectPending ~> ~effectPending)

C34_Witness ==
  /\ last.op = "ensurePositions" /\ calls = <<>> /\ ~effectPending
  /\ Len(puzzles) = 3 /\ AllPlaced
  /\ emitted # <<>> /\ emitted[1].positions = positions
  /\ canvasState.positions = positions

\* The step is a view-only operation: wheel zoom, locate-node, collapse
\* toggling, the start of panning or of a marquee, a pointer-move that pans
\* or recomputes the marquee, or a release that ends panning or a marquee.
ViewOnlyStep ==
  \/ last'.op \in {"wheel", "locateNode", "toggleCollapse"}
  \/ last'.op = "mouseDown" /\ (last'.btn = 1 \/ last'.part = "background")
  \/ last'.op = "mouseMove" /\ (isPanning \/ (draggingNodeId = 0 /\ selectionRect # <<>>))
  \/ /\ last'.op \in {"mouseUp", "mouseLeave"}
     /\ draggingNodeId = 0 /\ dragLine = <<>>

\* C35: panning, wheel zoom, locate-node, marquee selection and collapse
\* toggling leave the position map and the connection list as they were
\* and do not call onUpdate, so the stored canvas state is not rewritten.
C35_ViewOnlyKeepsDomain ==
  [][ViewOnlyStep
     => /\ positions' = positions
        /\ connections' = connections
        /\ calls' = <<>>
        /\ canvasState' = canvasState
        /\ emitted' = emitted]_vars

C35_Witness ==
  /\ last.op = "mouseMove" /\ selectionRect # <<>>
  /\ selectedNodeIds # <<>> /\ draggingNodeId = 0
  /\ transform.scale # R(1) /\ (transform.x # R(0) \/ transform.y # R(0))
  /\ collapsedNodes # {}
  /\ emitted = <<>> /\ calls = <<>>
  /\ positions = canvasState.positions /\ Len(connections) = 1

\* C36: while panning, a pointer-move by (dx, dy) on the screen adds
\* exactly (dx, dy) to the pan offset, whatever the scale, and leaves the
\* scale as it was; a pointer-move without panning leaves the whole
\* transform as it was.
C36_PanAddsScreenDelta ==
  [][last'.op = "mouseMove"
     => IF isPanning
        THEN /\ transform'.x = RAdd(transform.x, R(lastMousePos'[1] - lastMousePos[1]))
             /\ transform'.y = RAdd(transform.y, R(lastMousePos'[2] - lastMousePos[2]))
             /\ transform'.scale = transform.scale
        ELSE transform' = transform]_vars

C36_Witness ==
  /\ last.op = "mouseMove" /\ isPanning
  /\ lastMousePos = V1 /\ budget.pan = 1
  /\ transform.scale # R(1) /\ budget.wheel = 1

\* The effects a step had: the pan offset moved, node positions moved, the
\* marquee or the selection was recomputed.
MoveEffects ==
  {e \in {"pan", "node", "marquee"} :
     \/ e = "pan" /\ transform' # transform
     \/ e = "node" /\ positions' # positions
     \/ e = "marquee" /\ (selectionRect' # selectionRect \/ selectedNodeIds' # selectedNodeIds)}

\* C37: a pointer-move applies at most one of pan-translate, node-translate
\* and marquee-recompute, and which one is decided with panning before
\* node-dragging before the marquee: while panning no node position and no
\* selection changes, while node-dragging without panning neither the
\* transform nor the marquee, and otherwise neither transform nor positions.
C37_MovePriority ==
  [][last'.op = "mouseMove"
     => /\ Cardinality(MoveEffects) <= 1
        /\ MoveEffects \subseteq
             (IF isPanning THEN {"pan"}
              ELSE IF draggingNodeId # 0 THEN {"node"}
              ELSE IF selectionRect # <<>> THEN {"marquee"}
              ELSE {})]_vars

C37_Witness ==
  /\ last.op = "mouseMove" /\ isPanning
  /\ draggingNodeId # 0 /\ selectionRect # <<>>
  /\ selectedNodeIds = <<draggingNodeId>>
  /\ budget.pan = 1 /\ budget.drag = 0
  /\ positions = canvasState.positions
  /\ selectionRect[1].currentX = selectionRect[1].startX

\* The places <<project, chapter, index>> at which node id is listed.
PlacesOf(projs, id) ==
  UNION {UNION {{<<q, c, i>> : i \in {k \in 1..Len(projs[q][c]) : projs[q][c][k] = id}} :
                  c \in 1..Len(projs[q])} : q \in DOMAIN projs}

\* C38: after a node was moved to a chapter it is listed exactly once, every
\* other node is in the chapter and in the relative order it had, and each
\* project has as many nodes as before.
C38_MoveKeepsNodes ==
  [][last'.op = "movePuzzle"
     => /\ Cardinality(PlacesOf(ProjectChapters', last'.id)) = 1
        /\ \A q \in DOMAIN ProjectChapters : \A c \in 1..Len(ProjectChapters[q]) :
              SelectSeq(ProjectChapters'[q][c], LAMBDA n : n # last'.id)
                = SelectSeq(ProjectChapters[q][c], LAMBDA n : n # last'.id)
        /\ \A q \in DOMAIN ProjectChapters :
              Len(flatMap(ProjectChapters'[q])) = Len(flatMap(ProjectChapters[q]))]_vars
====
